---- MODULE Spec2Model ----
(***************************************************************************)
(* The ADB menu CLI: menus, device probes, backup orchestration and UI     *)
(* automation (src/main_cli.py, src/adb_connectors.py,                     *)
(* src/adb_automator.py, src/adb_utils.py).                                *)
(*                                                                         *)
(* Spec is the program run from its main loop.  UnitSpec calls the two     *)
(* probes, the input agent and the executor on their own, over many more   *)
(* outputs of the bridge than the menus meet.                              *)
(*                                                                         *)
(* Strings are sequences of one-character strings, so that strip(),        *)
(* lower(), int() and the command line are computed and not assumed.       *)
(* Time is a clock in seconds, reset when a backup operation starts; it    *)
(* advances by the sleeps, by the bridge calls that run into their         *)
(* timeout, and by the wait on the backup subprocess.                      *)
(* The operator answers every prompt and does not interrupt the program.   *)
(***************************************************************************)
EXTENDS Integers, Sequences, FiniteSets, TLC

(* ------------------------------ bounds -------------------------------- *)

\* Number of backup operations started from the menus in one run.
MaxSessions == 2

\* Number of lines after the first in an "adb devices" output.
MaxLines == 2

(* ------------------------- program constants -------------------------- *)

TIMEOUT_SECONDS == 30
FullBackupTimeout == 3600
AppBackupTimeout == 600
SettleInitial == 5
SettleAfterTap == 2
SettleAfterPasswordField == 1
SettleAfterText == 1
SettleAfterConfirm == 2
KeycodeEnter == 66

ProvidedTapCoords == <<758, 1230>>
ProvidedPasswordCoords == <<137, 790>>
NoConfirmCoords == <<>>
ProvidedConfirmCoords == <<758, 1230>>
ProvidedPassword == <<"1", "2", "3", "4">>

\* Python's None (and every empty, falsy value the code tests with "if v:").
None == <<>>

(* ------------------------------ strings ------------------------------- *)

Whitespace == {" ", "\t", "\n"}

Digits == <<"0", "1", "2", "3", "4", "5", "6", "7", "8", "9">>

IsDigit(c) == \E i \in 1..10 : Digits[i] = c

DigitVal(c) == (CHOOSE i \in 1..10 : Digits[i] = c) - 1

RECURSIVE LStrip(_)
LStrip(s) == IF s # <<>> /\ Head(s) \in Whitespace THEN LStrip(Tail(s)) ELSE s

RECURSIVE RStrip(_)
RStrip(s) ==
    IF s # <<>> /\ s[Len(s)] \in Whitespace
    THEN RStrip(SubSeq(s, 1, Len(s) - 1))
    ELSE s

\* str.strip()
StripLeftOnly(s) == LStrip(s)
Strip(s) == RStrip(LStrip(s))

\* str.lower(), on the letters the prompts' answers use
LowerChar(c) == IF c = "Y" THEN "y" ELSE IF c = "N" THEN "n" ELSE c
Lower(s) == [i \in 1..Len(s) |-> LowerChar(s[i])]

RECURSIVE DigitsValue(_)
DigitsValue(s) ==
    IF s = <<>> THEN 0
    ELSE 10 * DigitsValue(SubSeq(s, 1, Len(s) - 1)) + DigitVal(s[Len(s)])

\* int(text): surrounding whitespace is ignored, one sign is allowed, the
\* rest must be one or more decimal digits; anything else is a ValueError.
ParseInt(raw) ==
    LET s == Strip(raw)
        signed == s # <<>> /\ Head(s) \in {"+", "-"}
        body == IF signed THEN Tail(s) ELSE s
        good == body # <<>> /\ \A i \in 1..Len(body) : IsDigit(body[i])
    IN  IF good
        THEN [ok |-> TRUE,
              val |-> IF signed /\ Head(s) = "-" THEN 0 - DigitsValue(body)
                      ELSE DigitsValue(body)]
        ELSE [ok |-> FALSE, val |-> 0]

\* text contains s as a contiguous substring
Contains(text, s) ==
    \E i \in 0..(Len(text) - Len(s)) : SubSeq(text, i + 1, i + Len(s)) = s

\* re.sub(r'[^\w\.]', '', package_name): keep letters, digits, "_" and "."
IsWordOrDot(c) == c \notin (Whitespace \cup {"-", "/", ":", "+"})
Sanitize(s) == SelectSeq(s, IsWordOrDot)

(* ------------------------------ inputs -------------------------------- *)

Serials == {<<"a", "b", "c">>, <<"1", ".", "2", ".", "3", ".", "4", ":", "5">>}

YesNoInputs == {<<"y">>, <<"Y", " ">>, <<"n">>}

PackageInputs ==
    {<<" ", "c", ".", "x", " ">>, <<"-", "a", "l", "l">>, <<" ", " ">>}

\* What the operator types at each of the six coordinate prompts.
CoordInputs ==
    <<{<<"7">>, <<"x">>},
      {<<" ", "1", "2">>, <<>>},
      {<<"3">>, <<"3", ".", "5">>},
      {<<"+", "9">>, <<"9", " ", "0">>},
      {<<"4", "0">>, <<"-">>},
      {<<"6", "\n">>, <<" ">>}>>

PasswordInputs == {<<>>, <<" ", "p", " ", "w", " ">>}

FolderInputs == {<<"/", "d">>, <<" ">>}

\* Captured stderr of the backup subprocess
StderrOutputs == {<<>>, <<"e">>, <<"e", "\n">>, <<" ", "e">>, <<"e", " ">>}

ExitCodes == {0, 1}

\* What can happen to one short bridge call made through _run_adb_command:
\* exit 0 with nothing on stderr, exit 0 with text on stderr, a non-zero
\* exit, the call's timeout, the bridge binary missing, any other exception.
ExecOutcomes == {"ok", "ok_stderr", "nonzero", "timeout", "notfound", "unexpected"}

\* How long after the wait began a subprocess that exits during it exits.
ExitDelays(timeout) == {1, timeout - 1}

AllExitDelays == ExitDelays(FullBackupTimeout) \cup ExitDelays(AppBackupTimeout)

(* --------------------------- command executor -------------------------- *)

\* A word of a command line whose letters no operation of the program looks
\* into, kept in one piece.  Every element of a command line is a string.
Word(w) == <<w>>

\* str(n) for an integer n
RECURSIVE NatToStr(_)
NatToStr(n) ==
    IF n < 10 THEN <<Digits[n + 1]>>
    ELSE NatToStr(n \div 10) \o <<Digits[(n % 10) + 1]>>

IntToStr(n) == IF n < 0 THEN <<"-">> \o NatToStr(0 - n) ELSE NatToStr(n)

\* ' '.join(words), and ', '.join(names) with the separator <<",", " ">>
RECURSIVE JoinWith(_, _)
JoinWith(words, sep) ==
    IF words = <<>> THEN <<>>
    ELSE IF Len(words) = 1 THEN words[1]
    ELSE words[1] \o sep \o JoinWith(Tail(words), sep)

\* full_command of _run_adb_command
FullCommand(command_args, target_serial) ==
    <<Word("adb")>>
      \o (IF target_serial # None THEN <<<<"-", "s">>, target_serial>> ELSE <<>>)
      \o command_args

\* The messages of the four except branches of _run_adb_command
NotFoundMessage ==
    Word("Error: 'adb' command not found. Please ensure ADB is installed and added to your system's PATH.")

CalledProcessErrorMessage(full_command, err) ==
    Word("Error executing command: ") \o JoinWith(full_command, <<" ">>)
      \o Word("\nStderr: ") \o Strip(err)

TimeoutMessageAsUnexpected(full_command, timeout) ==
    Word("An unexpected error occurred: ") \o Word("timed out")
TimeoutMessage(full_command, timeout) ==
    Word("Error: Command timed out after ") \o IntToStr(timeout) \o Word(" seconds: ")
      \o JoinWith(full_command, <<" ">>)

UnexpectedMessage(e) == Word("An unexpected error occurred: ") \o e

\* str(e) of the exception the last except branch caught
ExceptionText == Word("[Errno 13] Permission denied: 'adb'")

\* _run_adb_command: the (stdout, stderr) pair it returns and the time the
\* call took.  A stdout of None is noStdout = TRUE.  out and err are what the
\* bridge wrote to its two streams; outcome says how the call ended.
RunAdbCommandFull(command_args, target_serial, raw_output, timeout, outcome, out, err) ==
    LET full_command == FullCommand(command_args, target_serial)
    IN  CASE outcome = "ok" ->
               [noStdout |-> FALSE, stdout |-> IF raw_output THEN out ELSE Strip(out),
                stderr |-> Strip(<<>>), elapsed |-> 0, argv |-> full_command]
          [] outcome = "ok_stderr" ->
               [noStdout |-> FALSE, stdout |-> IF raw_output THEN out ELSE Strip(out),
                stderr |-> Strip(err), elapsed |-> 0, argv |-> full_command]
          [] outcome = "nonzero" ->
               [noStdout |-> TRUE, stdout |-> None,
                stderr |-> CalledProcessErrorMessage(full_command, err),
                elapsed |-> 0, argv |-> full_command]
          [] outcome = "timeout" ->
               [noStdout |-> TRUE, stdout |-> None,
                stderr |-> TimeoutMessage(full_command, timeout),
                elapsed |-> timeout, argv |-> full_command]
          [] outcome = "notfound" ->
               [noStdout |-> TRUE, stdout |-> None, stderr |-> NotFoundMessage,
                elapsed |-> 0, argv |-> full_command]
          [] OTHER ->
               [noStdout |-> TRUE, stdout |-> None,
                stderr |-> UnexpectedMessage(ExceptionText),
                elapsed |-> 0, argv |-> full_command]

\* What the bridge writes to stderr in a short call that ends with outcome.
BridgeStderr(outcome) ==
    IF outcome = "ok_stderr" THEN <<"w", "\n">>
    ELSE IF outcome = "nonzero" THEN <<"f", "\n">>
    ELSE <<>>

\* _run_adb_command with the default raw_output and timeout, for a call whose
\* stdout the caller drops.
RunAdbCommandBackupTimeout(command_args, target_serial, outcome) ==
    RunAdbCommandFull(command_args, target_serial, FALSE, AppBackupTimeout, outcome,
                      <<>>, BridgeStderr(outcome))
RunAdbCommand(command_args, target_serial, outcome) ==
    RunAdbCommandFull(command_args, target_serial, FALSE, TIMEOUT_SECONDS, outcome,
                      <<>>, BridgeStderr(outcome))

(* ------------------------- synthetic input agent ----------------------- *)

\* AdbAutomator._shell_input: one executor call; True iff stderr is empty.
\* calls lists the command line of every executor call made, stderr is what
\* the executor returned.
ShellInputAlwaysTrue(serial, command_type, value1, value2, outcome) ==
    LET cmd == <<Word("shell"), Word("input"), Word(command_type), value1>>
                 \o (IF value2 # None THEN <<value2>> ELSE <<>>)
        r == RunAdbCommand(cmd, serial, outcome)
    IN  [ok |-> TRUE, elapsed |-> r.elapsed, argv |-> r.argv,
         calls |-> <<r.argv>>, stderr |-> r.stderr]
ShellInput(serial, command_type, value1, value2, outcome) ==
    LET cmd == <<Word("shell"), Word("input"), Word(command_type), value1>>
                 \o (IF value2 # None THEN <<value2>> ELSE <<>>)
        r == RunAdbCommand(cmd, serial, outcome)
    IN  [ok |-> (r.stderr = <<>>), elapsed |-> r.elapsed, argv |-> r.argv,
         calls |-> <<r.argv>>, stderr |-> r.stderr]

\* AdbAutomator.tap_screen (int() of an integer is that integer)
TapScreen(serial, x, y, outcome) ==
    ShellInput(serial, "tap", IntToStr(x), IntToStr(y), outcome)

\* AdbAutomator.input_text: every space becomes the two characters %s
RECURSIVE EscapeFirstSpace(_)
EscapeFirstSpace(text) ==
    IF text = <<>> THEN <<>>
    ELSE IF Head(text) = " " THEN <<"%", "s">> \o Tail(text)
    ELSE <<Head(text)>> \o EscapeFirstSpace(Tail(text))
RECURSIVE EscapeSpaces(_)
EscapeSpaces(text) ==
    IF text = <<>> THEN <<>>
    ELSE (IF Head(text) = " " THEN <<"%", "s">> ELSE <<Head(text)>>)
         \o EscapeSpaces(Tail(text))

InputText(serial, text, outcome) ==
    ShellInput(serial, "text", EscapeSpaces(text), None, outcome)

\* AdbAutomator.press_key
PressKey(serial, key_code, outcome) ==
    ShellInput(serial, "keycode", IntToStr(key_code), None, outcome)

(* ------------------------------ filenames ------------------------------ *)

AllDigits(s) == \A i \in 1..Len(s) : IsDigit(s[i])

\* str.split(c)
RECURSIVE SplitOn(_, _)
SplitOn(s, c) ==
    IF \A i \in 1..Len(s) : s[i] # c THEN <<s>>
    ELSE LET k == CHOOSE i \in 1..Len(s) :
                      s[i] = c /\ \A j \in 1..(i - 1) : s[j] # c
         IN  <<SubSeq(s, 1, k - 1)>> \o SplitOn(SubSeq(s, k + 1, Len(s)), c)

\* re.match(WIFI_SERIAL_PATTERN, serial); "$" also matches before one
\* final newline.
MatchesWifiPattern(serial) ==
    LET s == IF serial # <<>> /\ serial[Len(serial)] = "\n"
             THEN SubSeq(serial, 1, Len(serial) - 1) ELSE serial
        hp == SplitOn(s, ":")
        octets == SplitOn(hp[1], ".")
    IN  /\ Len(hp) = 2
        /\ hp[2] # <<>> /\ AllDigits(hp[2])
        /\ Len(octets) = 4
        /\ \A i \in 1..4 : Len(octets[i]) \in 1..3 /\ AllDigits(octets[i])

\* clean_serial_for_filename
CleanSerialForFilename(serial) ==
    IF MatchesWifiPattern(serial) THEN SplitOn(serial, ":")[1] ELSE serial

\* The default file name of a backup; the timestamp is kept in one piece.
DefaultFilename(which, serial, package_name) ==
    IF which = "all"
    THEN Word("adb_backup_all_") \o CleanSerialForFilename(serial)
           \o Word("_<timestamp>.ab")
    ELSE Word("adb_backup_app_") \o Sanitize(package_name) \o <<"_">>
           \o CleanSerialForFilename(serial) \o Word("_<timestamp>.ab")

(* ----------------------------- device probe ---------------------------- *)

StatusDevice == <<"d", "e", "v", "i", "c", "e">>
StatusUnauthorized == <<"u", "n", "a", "u", "t", "h", "o", "r", "i", "z", "e", "d">>
StatusOffline == <<"o", "f", "f", "l", "i", "n", "e">>

\* stdout.strip().split('\n')[1:]
ListingLinesKeepFirst(stdout) == SplitOn(Strip(stdout), "\n")
ListingLines(stdout) == Tail(SplitOn(Strip(stdout), "\n"))

\* The head of the loop body: nothing for a line the loop skips, the
\* stripped (serial, status) pair of a line it goes on to filter.
ParseLineAnyFields(line) ==
    LET parts == SplitOn(line, "\t")
    IN  IF Strip(line) = <<>> THEN <<>>
        ELSE IF Len(parts) >= 2
             THEN <<[serial |-> Strip(parts[1]), status |-> Strip(parts[2])]>>
             ELSE <<>>
ParseLine(line) ==
    LET parts == SplitOn(line, "\t")
    IN  IF Strip(line) = <<>> THEN <<>>
        ELSE IF Len(parts) = 2
             THEN <<[serial |-> Strip(parts[1]), status |-> Strip(parts[2])]>>
             ELSE <<>>

\* AdbUsbConnector: "if not re.match(WIFI_SERIAL_PATTERN, serial)"
UsbKeepsEverything(serial) == TRUE
UsbKeeps(serial) == ~MatchesWifiPattern(serial)

\* AdbWifiConnector: "if re.match(WIFI_SERIAL_PATTERN, serial)"
WifiKeeps(serial) == MatchesWifiPattern(serial)

Keeps(track, serial) == IF track = "usb" THEN UsbKeeps(serial) ELSE WifiKeeps(serial)

\* The if / elif chain on status: the list the serial is appended to
BucketUnknownAsOffline(status) ==
    IF status = StatusDevice THEN "authorized"
    ELSE IF status = StatusUnauthorized THEN "unauthorized"
    ELSE "offline"
Bucket(status) ==
    IF status = StatusDevice THEN "authorized"
    ELSE IF status = StatusUnauthorized THEN "unauthorized"
    ELSE IF status = StatusOffline THEN "offline"
    ELSE "unknown"

\* The for loop: the serials appended to one of the three lists, in order
RECURSIVE Appended(_, _, _)
Appended(lines, track, bucket) ==
    IF lines = <<>> THEN <<>>
    ELSE LET p == ParseLine(Head(lines))
         IN  (IF p # <<>> /\ Keeps(track, p[1].serial) /\ Bucket(p[1].status) = bucket
              THEN <<p[1].serial>> ELSE <<>>)
             \o Appended(Tail(lines), track, bucket)

TrackName(track) == IF track = "usb" THEN "USB" ELSE "Wi-Fi"

\* The messages of the return statements after the loop
AuthorizedMessage(track, names) ==
    Word("ADB ") \o Word(TrackName(track))
      \o Word(" connection successful. Device(s) connected and authorized: ")
      \o JoinWith(names, <<",", " ">>)

UnauthorizedMessage(track, names) ==
    IF track = "usb"
    THEN Word("Device(s) detected but 'unauthorized': ") \o JoinWith(names, <<",", " ">>)
           \o Word(". Please check your Android device and authorize the connection (allow USB debugging).")
    ELSE Word("Wi-Fi Device(s) detected but 'unauthorized': ")
           \o JoinWith(names, <<",", " ">>)
           \o Word(". Check device for authorization prompt.")

OfflineMessage(track, names) ==
    IF track = "usb"
    THEN Word("Device(s) detected but 'offline': ") \o JoinWith(names, <<",", " ">>)
           \o Word(". Please ensure your device is powered on and not in a special mode.")
    ELSE Word("Wi-Fi Device(s) detected but 'offline': ") \o JoinWith(names, <<",", " ">>)
           \o Word(". Check device and network.")

NoDevicesMessage(track) ==
    Word("No authorized ") \o Word(TrackName(track)) \o Word(" Android devices found.")

\* The return statements after the loop.  branch names the one taken.
SummaryUnauthorizedFirst(track, authorized_devices, unauthorized_devices, offline_devices) ==
    IF unauthorized_devices # <<>>
    THEN [ok |-> FALSE, branch |-> "unauthorized",
          message |-> UnauthorizedMessage(track, unauthorized_devices),
          authorized |-> <<>>]
    ELSE IF authorized_devices # <<>>
    THEN [ok |-> TRUE, branch |-> "authorized",
          message |-> AuthorizedMessage(track, authorized_devices),
          authorized |-> authorized_devices]
    ELSE IF offline_devices # <<>>
    THEN [ok |-> FALSE, branch |-> "offline",
          message |-> OfflineMessage(track, offline_devices),
          authorized |-> <<>>]
    ELSE [ok |-> FALSE, branch |-> "none", message |-> NoDevicesMessage(track),
          authorized |-> <<>>]
Summary(track, authorized_devices, unauthorized_devices, offline_devices) ==
    IF authorized_devices # <<>>
    THEN [ok |-> TRUE, branch |-> "authorized",
          message |-> AuthorizedMessage(track, authorized_devices),
          authorized |-> authorized_devices]
    ELSE IF unauthorized_devices # <<>>
    THEN [ok |-> FALSE, branch |-> "unauthorized",
          message |-> UnauthorizedMessage(track, unauthorized_devices),
          authorized |-> <<>>]
    ELSE IF offline_devices # <<>>
    THEN [ok |-> FALSE, branch |-> "offline",
          message |-> OfflineMessage(track, offline_devices),
          authorized |-> <<>>]
    ELSE [ok |-> FALSE, branch |-> "none", message |-> NoDevicesMessage(track),
          authorized |-> <<>>]

\* check_connection of the two connectors, given what its one executor
\* call, _run_adb_command(['devices']), returned.  The three lists of the
\* loop are kept next to the returned triple (ok, message, authorized).
CheckConnection(track, r) ==
    IF r.stderr # <<>>
    THEN [ok |-> FALSE, branch |-> "error",
          message |-> Word("Error running 'adb devices': ") \o r.stderr,
          authorized |-> <<>>,
          authorized_devices |-> <<>>, unauthorized_devices |-> <<>>,
          offline_devices |-> <<>>]
    ELSE LET lines == ListingLines(r.stdout)
             a == Appended(lines, track, "authorized")
             u == Appended(lines, track, "unauthorized")
             o == Appended(lines, track, "offline")
             ret == Summary(track, a, u, o)
         IN  [ok |-> ret.ok, branch |-> ret.branch, message |-> ret.message,
              authorized |-> ret.authorized,
              authorized_devices |-> a, unauthorized_devices |-> u,
              offline_devices |-> o]

\* The executor call of check_connection
RunDevices(outcome, out, err) ==
    RunAdbCommandFull(<<Word("devices")>>, None, FALSE, TIMEOUT_SECONDS, outcome, out, err)

\* The header adb prints before the device lines, kept in one piece
Header == Word("List of devices attached")

\* Lines an "adb devices" output is put together from: well-formed lines of
\* both tracks and all statuses, padded fields, an unknown status, a blank
\* line, a line without a tab, three octets only, three fields, and the USB
\* device offline.
ProbeLines ==
    {<<"a", "b", "c", "1", "2", "3", "\t", "d", "e", "v", "i", "c", "e">>,
     <<"1", "0", ".", "0", ".", "0", ".", "5", ":", "5", "5", "5", "5", "\t", "d", "e", "v", "i", "c", "e">>,
     <<"a", "b", "c", "1", "2", "3", "\t", "u", "n", "a", "u", "t", "h", "o", "r", "i", "z", "e", "d">>,
     <<"1", "0", ".", "0", ".", "0", ".", "5", ":", "5", "5", "5", "5", "\t", "o", "f", "f", "l", "i", "n", "e">>,
     <<" ", "x", "9", " ", "\t", " ", "d", "e", "v", "i", "c", "e", " ">>,
     <<"x", "9", "\t", "r", "e", "c", "o", "v", "e", "r", "y">>,
     <<" ", " ">>,
     <<"x", "9", " ", "d", "e", "v", "i", "c", "e">>,
     <<"1", ".", "2", ".", "3", ":", "5", "\t", "d", "e", "v", "i", "c", "e">>,
     <<"x", "9", "\t", "o", "f", "f", "l", "i", "n", "e", "\t", "u", "s", "b">>,
     <<"a", "b", "c", "1", "2", "3", "\t", "o", "f", "f", "l", "i", "n", "e">>}

\* The output of one "adb devices" call: with or without a first line that
\* is the header, then up to MaxLines lines, each ended by a newline.
Listing(first, lines) ==
    JoinWith(first \o lines, <<"\n">>) \o <<"\n">>

LineSeqs == UNION {[1..n -> ProbeLines] : n \in 0..MaxLines}

Listings == {Listing(first, lines) : first \in {<<Header>>, <<>>}, lines \in LineSeqs}

\* What one "adb devices" call can meet: how it ends and what the bridge
\* wrote to its two streams.
ProbeInputs ==
    {[outcome |-> "ok", out |-> out, err |-> <<>>] : out \in Listings}
    \cup {[outcome |-> "ok_stderr", out |-> out, err |-> err] :
             out \in Listings, err \in {<<"w", "\n">>, <<" ", "\n">>}}
    \cup {[outcome |-> "nonzero", out |-> <<>>, err |-> <<"f", "\n">>]}
    \cup {[outcome |-> o, out |-> <<>>, err |-> <<>>] :
             o \in {"timeout", "notfound", "unexpected"}}

\* The "adb devices" calls the menus meet: both devices of Serials attached
\* and authorized, only the USB one, and the bridge missing.
MenuProbes ==
    {[outcome |-> "ok", err |-> <<>>,
      out |-> Listing(<<Header>>,
                      <<<<"a", "b", "c", "\t", "d", "e", "v", "i", "c", "e">>,
                        <<"1", ".", "2", ".", "3", ".", "4", ":", "5", "\t", "d", "e", "v", "i", "c", "e">>>>)],
     [outcome |-> "ok", err |-> <<>>,
      out |-> Listing(<<Header>>, <<<<"a", "b", "c", "\t", "d", "e", "v", "i", "c", "e">>>>)],
     [outcome |-> "notfound", err |-> <<>>, out |-> <<>>]}

\* Answers to "Enter the number of the device to query: "
DeviceChoiceInputs == {<<"1">>, <<" ", "2">>, <<"3">>, <<"x">>}

\* Answers to the address and pairing code prompts of the Wi-Fi menu
AddressInputs == {<<"1", ".", "2", ".", "3", ".", "4", ":", "5">>, <<" ">>}

\* Characters of the identifiers in code point order, for sorted()
Alphabet ==
    <<".", "0", "1", "2", "3", "4", "5", "6", "7", "8", "9", ":", "a", "b", "c", "x">>

CharRank(c) == CHOOSE i \in 1..Len(Alphabet) : Alphabet[i] = c

\* s < t on Python strings
RECURSIVE StrLess(_, _)
StrLess(s, t) ==
    IF t = <<>> THEN FALSE
    ELSE IF s = <<>> THEN TRUE
    ELSE IF Head(s) = Head(t) THEN StrLess(Tail(s), Tail(t))
    ELSE CharRank(Head(s)) < CharRank(Head(t))

RECURSIVE SortedSeq(_)
SortedSeq(S) ==
    IF S = {} THEN <<>>
    ELSE LET least == CHOOSE x \in S : \A y \in S \ {x} : StrLess(x, y)
         IN  <<least>> \o SortedSeq(S \ {least})

Range(seq) == {seq[i] : i \in 1..Len(seq)}

\* sorted(list(set(usb_serials + wifi_serials)))
UpdatedDeviceList(usb_serials, wifi_serials) ==
    SortedSeq(Range(usb_serials \o wifi_serials))

(* ------------------------- backup command line ------------------------- *)

FlagAll == <<"-", "a", "l", "l">>
FlagApk == <<"-", "a", "p", "k">>
FlagFile == <<"-", "f">>
FlagSerial == <<"-", "s">>

\* full_command of _backup_all_phone and of _backup_specific_app
BackupCommand(which, serial, backup_file_path, package_name) ==
    <<Word("adb"), FlagSerial, serial, Word("backup")>>
      \o (IF which = "all"
          THEN <<FlagAll, FlagFile, backup_file_path>>
          ELSE <<FlagFile, backup_file_path, FlagApk, package_name>>)

\* The timeout given to communicate()
BackupTimeout(which) == IF which = "all" THEN FullBackupTimeout ELSE AppBackupTimeout

(* ------------------------------- state --------------------------------- *)

VARIABLES
    pc,                      \* where the control thread is
    selected_device_serial,  \* backup_menu's device
    op,                      \* which backup operation runs: "all", "app", "none"
    locals,                  \* the parameter and local variables of the backup operation
    backup_process,          \* the Popen object and the process behind it
    orphans,                 \* subprocesses of earlier operations still running
    sessions,                \* backup operations started so far
    clock,                   \* seconds since the operation started
    events,                  \* sleeps and input calls of the operation, in order
    reports,                 \* outcomes printed by the operation, in order
    hist,                    \* observations about the operation (not program state)
    all_authorized_devices,  \* MainCli.all_authorized_devices
    probe_age,               \* backup operations started since that list was refreshed
    unit                     \* inputs and results of the component calls of UnitSpec

vars == <<pc, selected_device_serial, op, locals, backup_process, orphans,
          sessions, clock, events, reports, hist, all_authorized_devices,
          probe_age, unit>>

\* What no step of a backup operation touches.
rest == <<all_authorized_devices, probe_age, unit>>

InitLocals ==
    [serial |-> None, package_name |-> <<>>, auto_confirm |-> FALSE, password_to_use |-> <<>>,
     tap_coords |-> None, password_coords |-> None, confirm_pass_coords |-> None,
     coord_idx |-> 0, pending |-> 0,
     backup_file_path |-> <<>>, full_command |-> <<>>]

\* No Popen object yet.  returncode is <<>> for None, <<n>> for n.
NoProcess ==
    [started |-> FALSE, state |-> "none", returncode |-> None,
     stderr |-> <<>>, reaped |-> FALSE]

InitHist ==
    [spawnTime |-> 0, waitStart |-> 0, waited |-> FALSE, parseFailedAt |-> 0,
     stepFailed |-> FALSE, exception |-> FALSE, spawns |-> 0,
     packageTyped |-> <<>>, exitedAfter |-> <<>>]

\* No component call is under observation.
NoCall ==
    [kind |-> "none", outcome |-> "", out |-> <<>>, err |-> <<>>, fn |-> "",
     serial |-> <<>>, text |-> <<>>, raw |-> FALSE, exec |-> <<>>, usb |-> <<>>,
     wifi |-> <<>>, agent |-> <<>>]

Init ==
    /\ pc = "run"
    /\ selected_device_serial = None
    /\ op = "none"
    /\ locals = InitLocals
    /\ backup_process = NoProcess
    /\ orphans = 0
    /\ sessions = 0
    /\ clock = 0
    /\ events = <<>>
    /\ reports = <<>>
    /\ hist = InitHist
    /\ all_authorized_devices = <<>>
    /\ probe_age = 0
    /\ unit = NoCall

\* Subprocesses that were started and are still running.
InFlight == orphans + (IF backup_process.state = "running" THEN 1 ELSE 0)

(* ------------------------------- menus --------------------------------- *)

\* The local state of a backup operation, and the counters about them.
session == <<op, locals, backup_process, orphans, sessions, clock, events,
             reports, hist>>

\* _update_device_lists: both probes, then the sorted union of their lists.
\* p1 and p2 are what the two "adb devices" calls meet.
UpdateDeviceLists(p1, p2) ==
    LET usb == CheckConnection("usb", RunDevices(p1.outcome, p1.out, p1.err))
        wifi == CheckConnection("wifi", RunDevices(p2.outcome, p2.out, p2.err))
    IN  UpdatedDeviceList(usb.authorized, wifi.authorized)

\* A call of _update_device_lists inside an action
Refresh(p1, p2) ==
    /\ all_authorized_devices' = UpdateDeviceLists(p1, p2)
    /\ probe_age' = 0

\* run(): the top of the main loop, up to the prompt of the main menu
RunLoopTop(p1, p2) ==
    /\ pc = "run"
    /\ Refresh(p1, p2)
    /\ pc' = "main_menu"
    /\ UNCHANGED <<selected_device_serial, session, unit>>

\* run(), choice 1 (the tutorial) and every invalid choice: back to the top
MainMenuTutorial ==
    /\ pc = "main_menu"
    /\ pc' = "run"
    /\ UNCHANGED <<selected_device_serial, session, rest>>

\* run(), choice 6
MainMenuExit ==
    /\ pc = "main_menu"
    /\ pc' = "exited"
    /\ UNCHANGED <<selected_device_serial, session, rest>>

\* _select_target_device up to its prompt, for a caller that goes to menu
\* with the device, to prompt when the operator has to choose, and back to
\* on_none when there is no device.
BeginSelect(menu, prompt, on_none) ==
    IF all_authorized_devices = <<>>
    THEN pc' = on_none /\ UNCHANGED selected_device_serial
    ELSE IF Len(all_authorized_devices) = 1
    THEN pc' = menu /\ selected_device_serial' = all_authorized_devices[1]
    ELSE pc' = prompt /\ UNCHANGED selected_device_serial

\* run(), choice 5: backup_menu, which begins with _select_target_device
EnterBackupMenu ==
    /\ pc = "main_menu"
    /\ BeginSelect("backup_menu", "select_backup", "run")
    /\ UNCHANGED <<session, rest>>

\* run(), choice 2: get_device_info_menu, which begins the same way
EnterDeviceInfoMenu ==
    /\ pc = "main_menu"
    /\ BeginSelect("info_menu", "select_info", "run")
    /\ UNCHANGED <<session, rest>>

\* "return self.all_authorized_devices[choice - 1]"
SelectIgnoringList(devices, choice) == <<"x">>
SelectedDevice(devices, choice) == devices[choice]

\* The prompt loop of _select_target_device: int(input(...)) and the range
\* check; any other answer asks again.  The Wi-Fi menu hands the device to
\* usb_connector.set_tcpip_mode, which AdbUsbConnector does not have.
ChooseDevice(raw) ==
    /\ pc \in {"select_backup", "select_info", "select_tcpip"}
    /\ LET choice == ParseInt(raw)
       IN  IF choice.ok /\ 1 <= choice.val /\ choice.val <= Len(all_authorized_devices)
           THEN /\ selected_device_serial' =
                      SelectedDevice(all_authorized_devices, choice.val)
                /\ pc' = CASE pc = "select_backup" -> "backup_menu"
                           [] pc = "select_info" -> "info_menu"
                           [] OTHER -> "aborted"
           ELSE UNCHANGED <<pc, selected_device_serial>>
    /\ UNCHANGED <<session, rest>>

\* backup_menu, choice 4: the operation's locals and the menu's device are
\* gone; a subprocess left running is referenced by nothing.
LeaveBackupMenu ==
    /\ pc = "backup_menu"
    /\ pc' = "run"
    /\ selected_device_serial' = None
    /\ op' = "none"
    /\ locals' = InitLocals
    /\ orphans' = InFlight
    /\ backup_process' = NoProcess
    /\ clock' = 0
    /\ events' = <<>>
    /\ reports' = <<>>
    /\ hist' = InitHist
    /\ UNCHANGED <<sessions, rest>>

\* get_device_info_menu, choices 1 to 6: executor calls whose failures are
\* values, then _save_single_info_to_file, which asks unless there is
\* nothing to save.
DeviceInfoQuery(has_content) ==
    /\ pc = "info_menu"
    /\ pc' = IF has_content THEN "info_save" ELSE "info_menu"
    /\ UNCHANGED <<selected_device_serial, session, rest>>

\* The y/n prompt, _get_output_path and _save_to_file, whose except
\* branches return every failure of the write as a value.
DeviceInfoSave(answer) ==
    /\ pc = "info_save"
    /\ pc' = "info_menu"
    /\ UNCHANGED <<selected_device_serial, session, rest>>

\* get_device_info_menu, choice 7, and logcat_menu, choice 3
EnterLogcatMenu ==
    /\ pc = "info_menu"
    /\ pc' = "logcat_menu"
    /\ UNCHANGED <<selected_device_serial, session, rest>>

LeaveLogcatMenu ==
    /\ pc = "logcat_menu"
    /\ pc' = "info_menu"
    /\ UNCHANGED <<selected_device_serial, session, rest>>

\* get_device_info_menu, choice 8
LeaveDeviceInfoMenu ==
    /\ pc = "info_menu"
    /\ pc' = "run"
    /\ selected_device_serial' = None
    /\ UNCHANGED <<session, rest>>

\* run(), choice 3, and usb_connection_menu
EnterUsbMenu ==
    /\ pc = "main_menu"
    /\ pc' = "usb_menu"
    /\ UNCHANGED <<selected_device_serial, session, rest>>

\* usb_connection_menu, choice 1: a probe to print, then _update_device_lists
UsbRefresh(p1, p2) ==
    /\ pc = "usb_menu"
    /\ Refresh(p1, p2)
    /\ UNCHANGED <<pc, selected_device_serial, session, unit>>

LeaveUsbMenu ==
    /\ pc = "usb_menu"
    /\ pc' = "run"
    /\ UNCHANGED <<selected_device_serial, session, rest>>

\* run(), choice 4, and wifi_connection_menu
EnterWifiMenu ==
    /\ pc = "main_menu"
    /\ pc' = "wifi_menu"
    /\ UNCHANGED <<selected_device_serial, session, rest>>

\* wifi_connection_menu, choices 1 and 6: one connector call whose result is
\* printed, then _update_device_lists
WifiRefresh(p1, p2) ==
    /\ pc = "wifi_menu"
    /\ Refresh(p1, p2)
    /\ UNCHANGED <<pc, selected_device_serial, session, unit>>

\* wifi_connection_menu, choices 2 and 5: with an empty address the loop
\* continues; otherwise connect or disconnect, then _update_device_lists
WifiConnectOrDisconnect(address, p1, p2) ==
    /\ pc = "wifi_menu"
    /\ IF Strip(address) = <<>>
       THEN UNCHANGED <<all_authorized_devices, probe_age>>
       ELSE Refresh(p1, p2)
    /\ UNCHANGED <<pc, selected_device_serial, session, unit>>

\* wifi_connection_menu, choice 3: with both answers given it calls
\* wifi_connector.pair_wireless_device, which AdbWifiConnector does not
\* have; the AttributeError is caught nowhere and ends run().
WifiPair(ip_port_pairing, pairing_code) ==
    /\ pc = "wifi_menu"
    /\ pc' = IF Strip(ip_port_pairing) = <<>> \/ Strip(pairing_code) = <<>>
             THEN "wifi_menu" ELSE "aborted"
    /\ UNCHANGED <<selected_device_serial, session, rest>>

\* wifi_connection_menu, choice 4: _select_target_device, then
\* usb_connector.set_tcpip_mode, which AdbUsbConnector does not have; with
\* no device the call is skipped and the lists are refreshed.
WifiTcpip(p1, p2) ==
    /\ pc = "wifi_menu"
    /\ BeginSelect("aborted", "select_tcpip", "wifi_menu")
    /\ IF all_authorized_devices = <<>>
       THEN Refresh(p1, p2)
       ELSE UNCHANGED <<all_authorized_devices, probe_age>>
    /\ UNCHANGED <<session, unit>>

LeaveWifiMenu ==
    /\ pc = "wifi_menu"
    /\ pc' = "run"
    /\ UNCHANGED <<selected_device_serial, session, rest>>

\* A backup operation is called: its locals are fresh, and a subprocess the
\* previous operation left running is no longer referenced by anything.
StartOperation(which, first_pc) ==
    /\ pc = "backup_menu"
    /\ sessions < MaxSessions
    /\ sessions' = sessions + 1
    /\ op' = which
    /\ pc' = first_pc
    /\ locals' = [InitLocals EXCEPT !.serial = selected_device_serial]
    /\ orphans' = InFlight
    /\ backup_process' = NoProcess
    /\ clock' = 0
    /\ events' = <<>>
    /\ reports' = <<>>
    /\ hist' = InitHist
    /\ probe_age' = probe_age + 1
    /\ UNCHANGED <<selected_device_serial, all_authorized_devices, unit>>

\* backup_menu, choice 1
ChooseBackupAllPhone == StartOperation("all", "ask_auto")

\* backup_menu, choice 2
ChooseBackupSpecificApp == StartOperation("app", "ask_package")

(* ----------------------- session configuration ------------------------- *)

\* "if not package_name:" after the prompt
PackageNameNeverMissing(package_name) == FALSE
PackageNameMissing(package_name) == package_name = <<>>

\* _backup_specific_app: the package prompt
EnterPackageName(raw) ==
    /\ pc = "ask_package"
    /\ LET package_name == Strip(raw)
       IN  /\ locals' = [locals EXCEPT !.package_name = package_name]
           /\ pc' = IF PackageNameMissing(package_name) THEN "backup_menu" ELSE "ask_auto"
    /\ hist' = [hist EXCEPT !.packageTyped = <<raw>>]
    /\ UNCHANGED <<rest, selected_device_serial, op, backup_process, orphans, sessions,
                   clock, events, reports>>

\* input(...).lower().strip() == 'y'
SaysYes(answer) == Strip(Lower(answer)) = <<"y">>

\* "Attempt to automatically confirm and input password? (y/n)"
AskAutoConfirm(answer) ==
    /\ pc = "ask_auto"
    /\ locals' = [locals EXCEPT !.auto_confirm = SaysYes(answer)]
    /\ pc' = IF SaysYes(answer) THEN "ask_provided" ELSE "go_ahead"
    /\ UNCHANGED <<rest, selected_device_serial, op, backup_process, orphans, sessions,
                   clock, events, reports, hist>>

\* "Use the provided coordinates ? (y/n)"
AskUseProvided(answer) ==
    /\ pc = "ask_provided"
    /\ IF SaysYes(answer)
       THEN /\ locals' = [locals EXCEPT !.tap_coords = ProvidedTapCoords,
                                        !.password_coords = ProvidedPasswordCoords,
                                        !.confirm_pass_coords = ProvidedConfirmCoords,
                                        !.password_to_use = ProvidedPassword]
            /\ pc' = "go_ahead"
       ELSE /\ locals' = [locals EXCEPT !.coord_idx = 1]
            /\ pc' = "ask_coord"
    /\ UNCHANGED <<rest, selected_device_serial, op, backup_process, orphans, sessions,
                   clock, events, reports, hist>>

\* The except ValueError branch: auto_confirm after a coordinate failed to parse
AutoConfirmKept(auto_confirm) == auto_confirm
AutoConfirmAfterValueError(auto_confirm) == FALSE

\* One of the six int(input(...)) prompts, in the order of the code; each
\* pair is assigned when its second number has been parsed.
EnterCoordinate(raw) ==
    /\ pc = "ask_coord"
    /\ LET k == locals.coord_idx
           r == ParseInt(raw)
           pair == <<locals.pending, r.val>>
       IN  /\ raw \in CoordInputs[k]
           /\ IF ~r.ok
              THEN /\ locals' = [locals EXCEPT
                          !.auto_confirm = AutoConfirmAfterValueError(@)]
                   /\ hist' = [hist EXCEPT !.parseFailedAt = k]
                   /\ pc' = "go_ahead"
              ELSE /\ locals' =
                        [locals EXCEPT
                           !.coord_idx = k + 1,
                           !.pending = IF k % 2 = 1 THEN r.val ELSE 0,
                           !.tap_coords = IF k = 2 THEN pair ELSE @,
                           !.password_coords = IF k = 4 THEN pair ELSE @,
                           !.confirm_pass_coords = IF k = 6 THEN pair ELSE @]
                   /\ hist' = hist
                   /\ pc' = IF k = 6 THEN "ask_password" ELSE "ask_coord"
    /\ UNCHANGED <<rest, selected_device_serial, op, backup_process, orphans, sessions,
                   clock, events, reports>>

\* "Enter backup password (if any, leave blank for none)"
EnterPassword(raw) ==
    /\ pc = "ask_password"
    /\ locals' = [locals EXCEPT !.password_to_use = Strip(raw)]
    /\ pc' = "go_ahead"
    /\ UNCHANGED <<rest, selected_device_serial, op, backup_process, orphans, sessions,
                   clock, events, reports, hist>>

\* "Press Enter to initiate backup"
PressEnterToInitiate ==
    /\ pc = "go_ahead"
    /\ pc' = "get_path"
    /\ UNCHANGED <<rest, selected_device_serial, op, locals, backup_process, orphans,
                   sessions, clock, events, reports, hist>>

\* os.path.join(folder, default_filename)
JoinPath(folder, filename) ==
    IF folder[Len(folder)] = "/" THEN folder \o filename
    ELSE folder \o <<"/">> \o filename

\* _get_output_path: asks again until a folder is given that exists or can be
\* created, so the path it returns is never empty.
GetOutputPath(raw, folder_ok) ==
    /\ pc = "get_path"
    /\ LET folder_path == Strip(raw)
       IN  IF folder_path = <<>> \/ ~folder_ok
           THEN UNCHANGED <<rest, pc, locals>>
           ELSE /\ locals' =
                     [locals EXCEPT !.backup_file_path =
                        JoinPath(folder_path,
                                 DefaultFilename(op, locals.serial,
                                                 locals.package_name))]
                /\ pc' = "spawn"
    /\ UNCHANGED <<rest, selected_device_serial, op, backup_process, orphans, sessions,
                   clock, events, reports, hist>>

(* ------------------------- the backup subprocess ----------------------- *)

\* subprocess.Popen(full_command, stdout=PIPE, stderr=PIPE, text=True)
Popen ==
    [started |-> TRUE, state |-> "running", returncode |-> None,
     stderr |-> <<>>, reaped |-> FALSE]

\* Popen.kill(): SIGKILL, unless the process has ended already
KillNothing(p) == p
Kill(p) == [p EXCEPT !.state = IF @ = "running" THEN "killed" ELSE @]

\* communicate() with no timeout after kill(): reads what the process wrote
\* before it was killed and waits for it.
DrainWithoutWait(p, written) == [p EXCEPT !.stderr = written]
Drain(p, written) ==
    [p EXCEPT !.stderr = written, !.reaped = TRUE,
              !.returncode = IF p.state = "killed" THEN <<0 - 9>> ELSE @]

\* The except Exception branch: "if 'backup_process' in locals() and
\* backup_process.poll() is None: backup_process.kill()"
CleanupLeavesRunning(p) == p
CleanupAfterException(p) ==
    IF p.started /\ p.state = "running" THEN Kill(p) ELSE p

\* The subprocess ends by itself, at any moment while it runs.  During the
\* wait the moment is before the wait's timeout expires.
ProcessExits(rc, written, d) ==
    /\ backup_process.state = "running"
    /\ backup_process' = [backup_process EXCEPT !.state = "exited",
                                                !.returncode = <<rc>>,
                                                !.stderr = written]
    /\ IF pc = "wait"
       THEN /\ d \in ExitDelays(BackupTimeout(op))
            /\ clock' = hist.waitStart + d
       ELSE /\ d = 1
            /\ clock' = clock
    /\ hist' = [hist EXCEPT !.exitedAfter = <<Len(events)>>]
    /\ UNCHANGED <<rest, pc, selected_device_serial, op, locals, orphans, sessions,
                   events, reports>>

(* ------------------------------ reports -------------------------------- *)

StderrLabel == <<"A", "D", "B", " ", "S", "t", "d", "e", "r", "r", ":", " ">>

\* print(f"ADB Stderr: {stderr.strip()}")
StderrLine(stderr) == StderrLabel \o Strip(stderr) \o <<"\n">>

\* The if/else on backup_process.returncode after communicate() returned
ReportAlwaysSuccess(returncode, stderr) ==
    [kind |-> "SUCCESS", text |-> <<>>]
ExitReport(returncode, stderr) ==
    IF returncode = <<0>>
    THEN [kind |-> "SUCCESS", text |-> <<>>]
    ELSE [kind |-> "ERROR", text |-> StderrLine(stderr)]

\* The except subprocess.TimeoutExpired branch's prints
TimeoutReport(stderr) ==
    [kind |-> "WARNING_TIMED_OUT",
     text |-> Word("ADB Stderr (if any before timeout): ") \o Strip(stderr) \o <<"\n">>]

\* The except Exception branch's print
ExceptionReport ==
    [kind |-> "UNEXPECTED_ERROR",
     text |-> Word("An unexpected error occurred during backup: ")]

(* --------------------------- session controller ------------------------ *)

\* The try block up to Popen.  Popen may raise (the bridge binary is missing):
\* the except Exception branch then finds no backup_process among the locals.
Spawn(popen_ok) ==
    /\ pc = "spawn"
    /\ locals' = [locals EXCEPT !.full_command =
                     BackupCommand(op, locals.serial,
                                   locals.backup_file_path, locals.package_name)]
    /\ IF popen_ok
       THEN /\ backup_process' = Popen
            /\ hist' = [hist EXCEPT !.spawnTime = clock, !.spawns = @ + 1]
            /\ pc' = IF locals.auto_confirm THEN "auto_settle" ELSE "communicate"
            /\ reports' = reports
       ELSE /\ backup_process' = CleanupAfterException(backup_process)
            /\ hist' = [hist EXCEPT !.exception = TRUE]
            /\ reports' = Append(reports, ExceptionReport)
            /\ pc' = "backup_menu"
    /\ UNCHANGED <<rest, selected_device_serial, op, orphans, sessions, clock, events>>

SleepEvent(secs) == [kind |-> "sleep", secs |-> secs, argv |-> <<>>]
InputEvent(call) == [kind |-> "input", secs |-> 0, argv |-> call.argv]

\* Where control goes after an input call: its boolean result is not looked at.
StopWhenStepFails(next_pc, ok) == IF ok THEN next_pc ELSE "communicate"
StopWhenProcessEnded(next_pc, ok) ==
    IF backup_process.state = "exited" THEN "communicate" ELSE next_pc
AfterStep(next_pc, ok) == next_pc

\* One input call followed by its time.sleep(settle)
IssueStepWithRetry(call, settle, next_pc) ==
    /\ events' = events \o (IF call.ok THEN <<InputEvent(call)>>
                             ELSE <<InputEvent(call), InputEvent(call)>>)
                        \o <<SleepEvent(settle)>>
    /\ clock' = clock + call.elapsed + settle
    /\ hist' = [hist EXCEPT !.stepFailed = @ \/ ~call.ok]
    /\ pc' = next_pc

IssueStep(call, settle, next_pc) ==
    /\ events' = events \o <<InputEvent(call), SleepEvent(settle)>>
    /\ clock' = clock + call.elapsed + settle
    /\ hist' = [hist EXCEPT !.stepFailed = @ \/ ~call.ok]
    /\ pc' = AfterStep(next_pc, call.ok)

SkipStep(next_pc) ==
    /\ pc' = next_pc
    /\ UNCHANGED <<rest, events, clock, hist>>

\* "if auto_confirm:" time.sleep(5)
AutoSettle ==
    /\ pc = "auto_settle"
    /\ events' = Append(events, SleepEvent(SettleInitial))
    /\ clock' = clock + SettleInitial
    /\ pc' = "auto_tap"
    /\ UNCHANGED <<rest, selected_device_serial, op, locals, backup_process, orphans,
                   sessions, reports, hist>>

\* "if tap_coords:" tap, sleep 2; then "if password_to_use:"
AutoTapPrimary(outcome) ==
    /\ pc = "auto_tap"
    /\ LET next_pc == IF locals.password_to_use # <<>> THEN "auto_pwfield"
                      ELSE "communicate"
       IN  IF locals.tap_coords # None
           THEN IssueStep(TapScreen(locals.serial, locals.tap_coords[1],
                                    locals.tap_coords[2], outcome),
                          SettleAfterTap, next_pc)
           ELSE SkipStep(next_pc)
    /\ UNCHANGED <<rest, selected_device_serial, op, locals, backup_process, orphans,
                   sessions, reports>>

\* "if password_coords:" tap, sleep 1
AutoTapPasswordField(outcome) ==
    /\ pc = "auto_pwfield"
    /\ IF locals.password_coords # None
       THEN IssueStep(TapScreen(locals.serial, locals.password_coords[1],
                                locals.password_coords[2], outcome),
                      SettleAfterPasswordField, "auto_text")
       ELSE SkipStep("auto_text")
    /\ UNCHANGED <<rest, selected_device_serial, op, locals, backup_process, orphans,
                   sessions, reports>>

\* input_text(serial, password_to_use), sleep 1
AutoInputText(outcome) ==
    /\ pc = "auto_text"
    /\ IssueStep(InputText(locals.serial, locals.password_to_use, outcome),
                 SettleAfterText, "auto_confirm")
    /\ UNCHANGED <<rest, selected_device_serial, op, locals, backup_process, orphans,
                   sessions, reports>>

\* "if confirm_pass_coords:" tap "else:" press_key(serial, 66); sleep 2
AutoConfirmPassword(outcome) ==
    /\ pc = "auto_confirm"
    /\ IssueStep(IF locals.confirm_pass_coords # None
                 THEN TapScreen(locals.serial, locals.confirm_pass_coords[1],
                                locals.confirm_pass_coords[2], outcome)
                 ELSE PressKey(locals.serial, KeycodeEnter, outcome),
                 SettleAfterConfirm, "communicate")
    /\ UNCHANGED <<rest, selected_device_serial, op, locals, backup_process, orphans,
                   sessions, reports>>

\* The moment the timeout of communicate(timeout=...) expires
TimeoutFromSpawn(spawnTime, waitStart, timeout) == spawnTime + timeout
WaitDeadline(spawnTime, waitStart, timeout) == waitStart + timeout

\* backup_process.communicate(timeout=...) is called
BeginCommunicate ==
    /\ pc = "communicate"
    /\ hist' = [hist EXCEPT !.waitStart = clock, !.waited = TRUE]
    /\ pc' = "wait"
    /\ UNCHANGED <<rest, selected_device_serial, op, locals, backup_process, orphans,
                   sessions, clock, events, reports>>

\* communicate() returns: the process has ended and has been waited for
CommunicateReturns ==
    /\ pc = "wait"
    /\ backup_process.state = "exited"
    /\ backup_process' = [backup_process EXCEPT !.reaped = TRUE]
    /\ reports' = Append(reports, ExitReport(backup_process.returncode,
                                             backup_process.stderr))
    /\ pc' = "backup_menu"
    /\ UNCHANGED <<rest, selected_device_serial, op, locals, orphans, sessions, clock,
                   events, hist>>

\* communicate() raises TimeoutExpired: the process still runs at the
\* deadline.  kill(), communicate(), the three prints.  The second
\* communicate() has no timeout and is taken to return what was buffered.
CommunicateTimesOut(written) ==
    /\ pc = "wait"
    /\ backup_process.state = "running"
    /\ clock' = WaitDeadline(hist.spawnTime, hist.waitStart, BackupTimeout(op))
    /\ backup_process' = Drain(Kill(backup_process), written)
    /\ reports' = Append(reports, TimeoutReport(written))
    /\ pc' = "backup_menu"
    /\ UNCHANGED <<rest, selected_device_serial, op, locals, orphans, sessions, events,
                   hist>>

\* communicate() raises another exception: the except Exception branch
CommunicateRaises ==
    /\ pc = "wait"
    /\ backup_process' = CleanupAfterException(backup_process)
    /\ hist' = [hist EXCEPT !.exception = TRUE]
    /\ reports' = Append(reports, ExceptionReport)
    /\ pc' = "backup_menu"
    /\ UNCHANGED <<rest, selected_device_serial, op, locals, orphans, sessions, clock,
                   events>>

(* ---------------------------- specification ---------------------------- *)

Next ==
    \/ \E p1 \in MenuProbes, p2 \in MenuProbes : RunLoopTop(p1, p2)
    \/ MainMenuTutorial
    \/ MainMenuExit
    \/ EnterBackupMenu
    \/ EnterDeviceInfoMenu
    \/ \E raw \in DeviceChoiceInputs : ChooseDevice(raw)
    \/ \E has_content \in BOOLEAN : DeviceInfoQuery(has_content)
    \/ \E answer \in YesNoInputs : DeviceInfoSave(answer)
    \/ EnterLogcatMenu
    \/ LeaveLogcatMenu
    \/ LeaveDeviceInfoMenu
    \/ EnterUsbMenu
    \/ \E p1 \in MenuProbes, p2 \in MenuProbes : UsbRefresh(p1, p2)
    \/ LeaveUsbMenu
    \/ EnterWifiMenu
    \/ \E p1 \in MenuProbes, p2 \in MenuProbes : WifiRefresh(p1, p2)
    \/ \E address \in AddressInputs, p1 \in MenuProbes, p2 \in MenuProbes :
          WifiConnectOrDisconnect(address, p1, p2)
    \/ \E ip_port_pairing \in AddressInputs, pairing_code \in AddressInputs :
          WifiPair(ip_port_pairing, pairing_code)
    \/ \E p1 \in MenuProbes, p2 \in MenuProbes : WifiTcpip(p1, p2)
    \/ LeaveWifiMenu
    \/ LeaveBackupMenu
    \/ ChooseBackupAllPhone
    \/ ChooseBackupSpecificApp
    \/ \E raw \in PackageInputs : EnterPackageName(raw)
    \/ \E answer \in YesNoInputs : AskAutoConfirm(answer)
    \/ \E answer \in YesNoInputs : AskUseProvided(answer)
    \/ \E k \in 1..6 : \E raw \in CoordInputs[k] : EnterCoordinate(raw)
    \/ \E raw \in PasswordInputs : EnterPassword(raw)
    \/ PressEnterToInitiate
    \/ \E raw \in FolderInputs, folder_ok \in BOOLEAN : GetOutputPath(raw, folder_ok)
    \/ \E popen_ok \in BOOLEAN : Spawn(popen_ok)
    \/ AutoSettle
    \/ \E outcome \in ExecOutcomes : AutoTapPrimary(outcome)
    \/ \E outcome \in ExecOutcomes : AutoTapPasswordField(outcome)
    \/ \E outcome \in ExecOutcomes : AutoInputText(outcome)
    \/ \E outcome \in ExecOutcomes : AutoConfirmPassword(outcome)
    \/ BeginCommunicate
    \/ CommunicateReturns
    \/ \E written \in StderrOutputs : CommunicateTimesOut(written)
    \/ CommunicateRaises
    \/ \E rc \in ExitCodes, written \in StderrOutputs, d \in AllExitDelays :
          ProcessExits(rc, written, d)

Spec == Init /\ [][Next]_vars

(* ------------------ the components called on their own ------------------ *)

\* One call of a probe or of the input agent, with the inputs it meets.
ProbeCalls ==
    {[NoCall EXCEPT !.kind = "probe", !.outcome = p.outcome, !.out = p.out,
                    !.err = p.err] : p \in ProbeInputs}

\* Texts given to input_text: the provided password, one space, spaces at
\* both ends and two in a row, the escape token itself, and no text.
AgentTexts ==
    {ProvidedPassword, <<"p", " ", "w">>, <<" ", "a", " ", " ", "b", " ">>,
     <<"%", "s", "\t", "'">>, <<>>}

AgentCalls ==
    {[NoCall EXCEPT !.kind = "agent", !.fn = fn, !.serial = serial,
                    !.outcome = outcome, !.text = text] :
        fn \in {"tap", "text", "key"}, serial \in Serials,
        outcome \in ExecOutcomes, text \in AgentTexts}

\* What a call of the executor for a dump can meet: how it ends and what
\* the command wrote to its two streams, with padding on either side.
ExecInputs ==
    {[outcome |-> "ok", out |-> out, err |-> <<>>] :
        out \in {<<" ", "a", " ", "b", "\n">>, <<"a">>, <<"\n">>}}
    \cup {[outcome |-> "ok_stderr", out |-> out, err |-> err] :
             out \in {<<" ", "a", " ", "b", "\n">>, <<"a">>},
             err \in {<<"w", "\n">>, <<" ", "\n">>, <<"w">>}}
    \cup {[outcome |-> "nonzero", out |-> <<>>, err |-> <<"f", "\n">>]}
    \cup {[outcome |-> o, out |-> <<>>, err |-> <<>>] :
             o \in {"timeout", "notfound", "unexpected"}}

\* One call of _run_adb_command, with raw_output on or off
ExecCalls ==
    {[NoCall EXCEPT !.kind = "exec", !.outcome = p.outcome, !.out = p.out,
                    !.err = p.err, !.raw = raw, !.serial = serial] :
        p \in ExecInputs, raw \in BOOLEAN, serial \in Serials}

UnitInit ==
    /\ pc = "unit"
    /\ unit \in ProbeCalls \cup AgentCalls \cup ExecCalls
    /\ selected_device_serial = None
    /\ op = "none"
    /\ locals = InitLocals
    /\ backup_process = NoProcess
    /\ orphans = 0
    /\ sessions = 0
    /\ clock = 0
    /\ events = <<>>
    /\ reports = <<>>
    /\ hist = InitHist
    /\ all_authorized_devices = <<>>
    /\ probe_age = 0

\* AdbUsbConnector.check_connection, up to twice over the same output
UnitCheckUsb ==
    /\ pc = "unit"
    /\ unit.kind = "probe"
    /\ Len(unit.usb) < 2
    /\ LET r == RunDevices(unit.outcome, unit.out, unit.err)
       IN  unit' = [unit EXCEPT !.exec = <<r>>,
                                !.usb = Append(@, CheckConnection("usb", r))]
    /\ UNCHANGED <<pc, selected_device_serial, session, all_authorized_devices,
                   probe_age>>

\* AdbWifiConnector.check_connection, up to twice over the same output
UnitCheckWifi ==
    /\ pc = "unit"
    /\ unit.kind = "probe"
    /\ Len(unit.wifi) < 2
    /\ LET r == RunDevices(unit.outcome, unit.out, unit.err)
       IN  unit' = [unit EXCEPT !.exec = <<r>>,
                                !.wifi = Append(@, CheckConnection("wifi", r))]
    /\ UNCHANGED <<pc, selected_device_serial, session, all_authorized_devices,
                   probe_age>>

\* One operation of AdbAutomator
UnitAgent ==
    /\ pc = "unit"
    /\ unit.kind = "agent"
    /\ unit.agent = <<>>
    /\ unit' = [unit EXCEPT !.agent =
           <<CASE unit.fn = "tap" ->
                    TapScreen(unit.serial, ProvidedTapCoords[1], ProvidedTapCoords[2],
                              unit.outcome)
               [] unit.fn = "text" -> InputText(unit.serial, unit.text, unit.outcome)
               [] OTHER -> PressKey(unit.serial, KeycodeEnter, unit.outcome)>>]
    /\ UNCHANGED <<pc, selected_device_serial, session, all_authorized_devices,
                   probe_age>>

\* _run_adb_command(['shell', 'getprop'], serial, raw_output=...)
UnitExec ==
    /\ pc = "unit"
    /\ unit.kind = "exec"
    /\ unit.exec = <<>>
    /\ unit' = [unit EXCEPT !.exec =
           <<RunAdbCommandFull(<<Word("shell"), Word("getprop")>>, unit.serial,
                               unit.raw, TIMEOUT_SECONDS, unit.outcome, unit.out,
                               unit.err)>>]
    /\ UNCHANGED <<pc, selected_device_serial, session, all_authorized_devices,
                   probe_age>>

UnitNext ==
    \/ UnitCheckUsb
    \/ UnitCheckWifi
    \/ UnitAgent
    \/ UnitExec

UnitSpec == UnitInit /\ [][UnitNext]_vars

(* ------------------------- vocabulary of the claims -------------------- *)

\* Control is back at a menu prompt.
AtMenu ==
    pc \in {"run", "main_menu", "backup_menu", "info_menu", "logcat_menu", "usb_menu",
            "wifi_menu"}

\* The main thread is inside the automation sequence.
Automating ==
    pc \in {"auto_settle", "auto_tap", "auto_pwfield", "auto_text", "auto_confirm"}

\* The backup operation got as far as the try block (the session entered
\* Running, or failed entering it).
ReachedSpawn == locals.full_command # <<>>

\* The outcome the operation printed, "" when it printed none.
Outcome == IF reports = <<>> THEN "" ELSE reports[Len(reports)].kind

Deadline == hist.waitStart + BackupTimeout(op)

IsPrefix(s, t) == Len(s) <= Len(t) /\ SubSeq(t, 1, Len(s)) = s

(* -------------------------------- C1 ----------------------------------- *)

\* C1: whenever a backup operation has returned control to the menu, by
\* whichever path (exit, timeout, exception in spawn or wait), its
\* subprocess, if one was started, is not running any more.
C1_NoLiveSubprocessOnReturn ==
    (AtMenu /\ backup_process.started) => backup_process.state \in {"exited", "killed"}

\* C1 witness: an operation returned through the except Exception branch
\* with its subprocess killed.
C1_Witness ==
    /\ pc = "backup_menu"
    /\ backup_process.started
    /\ hist.exception
    /\ backup_process.state = "killed"

(* -------------------------------- C2 ----------------------------------- *)

\* C2: if the subprocess has not exited when the wait's timeout expires, the
\* operation reports the timeout (neither success nor failure), and a
\* reported timeout means the subprocess was killed and waited for before
\* control returned.
C2_TimeoutKillsAndReaps ==
    /\ (AtMenu /\ hist.waited /\ ~hist.exception /\ clock >= Deadline)
          => Outcome = "WARNING_TIMED_OUT"
    /\ Outcome = "WARNING_TIMED_OUT"
          => /\ AtMenu
             /\ backup_process.state = "killed"
             /\ backup_process.reaped
             /\ backup_process.returncode # None

\* C2 witness: a timed-out operation, back at the menu.
C2_Witness ==
    /\ pc = "backup_menu"
    /\ Outcome = "WARNING_TIMED_OUT"
    /\ clock = Deadline
    /\ backup_process.reaped

(* -------------------------------- C3 ----------------------------------- *)

InputArgv(type, args) ==
    <<Word("adb"), <<"-", "s">>, locals.serial,
      Word("shell"), Word("input"), Word(type)>> \o args

TapOf(coords) ==
    [kind |-> "input", secs |-> 0,
     argv |-> InputArgv("tap", <<IntToStr(coords[1]), IntToStr(coords[2])>>)]

PlannedEvents ==
    <<SleepEvent(5), TapOf(locals.tap_coords), SleepEvent(2)>>
      \o (IF locals.password_to_use = <<>> THEN <<>>
          ELSE (IF locals.password_coords # None
                THEN <<TapOf(locals.password_coords), SleepEvent(1)>> ELSE <<>>)
               \o
               <<[kind |-> "input", secs |-> 0,
                  argv |-> InputArgv("text", <<EscapeSpaces(locals.password_to_use)>>)],
                 SleepEvent(1),
                 IF locals.confirm_pass_coords # None
                 THEN TapOf(locals.confirm_pass_coords)
                 ELSE [kind |-> "input", secs |-> 0,
                       argv |-> InputArgv("keycode", <<<<"6", "6">>>>)],
                 SleepEvent(2)>>)

C5_ExactlyOneOutcome ==
    /\ ~AtMenu => reports = <<>>
    /\ (AtMenu /\ ReachedSpawn) =>
          /\ Len(reports) = 1
          /\ Outcome \in {"SUCCESS", "ERROR", "WARNING_TIMED_OUT", "UNEXPECTED_ERROR"}
          /\ Outcome = "UNEXPECTED_ERROR" <=> hist.exception
          /\ Outcome = "WARNING_TIMED_OUT" <=>
                (~hist.exception /\ hist.waited /\ clock >= Deadline)
          /\ Outcome = "SUCCESS" <=>
                (~hist.exception /\ clock < Deadline
                   /\ backup_process.state = "exited" /\ backup_process.returncode = <<0>>)
          /\ Outcome = "ERROR" <=>
                (~hist.exception /\ clock < Deadline
                   /\ backup_process.state = "exited" /\ backup_process.returncode # <<0>>)

\* C5 witness: an operation that ended in ERROR after its subprocess exited
\* with status 1 during the wait.
C5_Witness ==
    /\ pc = "backup_menu"
    /\ Outcome = "ERROR"
    /\ backup_process.returncode = <<1>>
    /\ clock > hist.waitStart

(* -------------------------------- C6 ----------------------------------- *)

\* C6, as claimed: after a non-zero exit the text shown to the operator
\* contains the captured stderr character for character, leading and
\* trailing whitespace included.
C6_StderrVerbatim ==
    Outcome = "ERROR" => Contains(reports[1].text, backup_process.stderr)

\* s without the whitespace at its two ends, said without strip()
IsTrimOf(t, s) ==
    \E i \in 1..(Len(s) + 1), j \in 0..Len(s) :
        /\ t = SubSeq(s, i, j)
        /\ \A k \in 1..(i - 1) : s[k] \in Whitespace
        /\ \A k \in (j + 1)..Len(s) : s[k] \in Whitespace
        /\ t # <<>> => (t[1] \notin Whitespace /\ t[Len(t)] \notin Whitespace)

\* C6, amended: after a non-zero exit before the timeout the operation ends
\* in ERROR and the line shown to the operator is the label "ADB Stderr: "
\* followed by the captured stderr without its leading and trailing
\* whitespace (its inner characters unchanged).
C6_StderrShownStripped ==
    /\ (AtMenu /\ ~hist.exception /\ hist.waited /\ clock < Deadline
          /\ backup_process.returncode # <<0>>) => Outcome = "ERROR"
    /\ Outcome = "ERROR" =>
          LET text == reports[1].text
              n == Len(StderrLabel)
          IN  /\ Len(text) > n
              /\ SubSeq(text, 1, n) = StderrLabel
              /\ text[Len(text)] = "\n"
              /\ IsTrimOf(SubSeq(text, n + 1, Len(text) - 1), backup_process.stderr)

\* C6 witness: an ERROR whose captured stderr ends in whitespace.
C6_Witness ==
    /\ Outcome = "ERROR"
    /\ backup_process.stderr = <<"e", " ">>
    /\ reports[1].text = StderrLabel \o <<"e", "\n">>

(* -------------------------------- C7 ----------------------------------- *)

\* C7: over any sequence of backup operations at most one backup subprocess
\* is in flight: an operation spawns at most one, and none is in flight when
\* an operation is at the point of spawning or has not spawned yet.
C7_AtMostOneInFlight ==
    /\ InFlight <= 1
    /\ hist.spawns <= 1
    /\ orphans = 0
    /\ hist.spawns = 0 => InFlight = 0

\* C7 witness: the second operation of a run waits on its subprocess, the
\* only one in flight.
C7_Witness ==
    /\ sessions = 2
    /\ backup_process.state = "running"
    /\ InFlight = 1
    /\ pc = "wait"

(* -------------------------------- C8 ----------------------------------- *)

HasArg(command, arg) == \E i \in 1..Len(command) : command[i] = arg

Follows(command, flag, arg) ==
    \E i \in 1..(Len(command) - 1) : command[i] = flag /\ command[i + 1] = arg

\* C8: the spawned command has -all and no package argument for the
\* whole-device scope; for the single-application scope, whatever package
\* name was accepted, it has -apk and the package name and not -all; in both
\* the output path follows -f.
C8_CommandFollowsScope ==
    backup_process.started =>
        /\ Follows(locals.full_command, FlagFile, locals.backup_file_path)
        /\ op = "all" =>
              /\ HasArg(locals.full_command, FlagAll)
              /\ ~HasArg(locals.full_command, FlagApk)
              /\ Len(locals.full_command) = 7
        /\ op = "app" =>
              /\ Follows(locals.full_command, FlagApk, locals.package_name)
              /\ ~HasArg(locals.full_command, FlagAll)

(* -------------------------------- C9 ----------------------------------- *)

\* C9: the sleeps and input calls issued so far are always the beginning of
\* the fixed sequence (settle 5, tap, settle 2, and with a password:
\* password-field tap, settle 1, text, settle 1, confirm tap or Enter key,
\* settle 2), none is issued before the spawn, each is issued once, and the
\* whole sequence has been issued when the wait begins, whether or not a
\* step reported failure.
C9_AutomationSequence ==
    /\ events # <<>> =>
          /\ backup_process.started
          /\ locals.auto_confirm
          /\ IsPrefix(events, PlannedEvents)
    /\ (locals.auto_confirm /\ (hist.waited \/ pc = "communicate"))
          => events = PlannedEvents

\* C9 witness: the whole sequence with a password was issued although a step
\* had reported failure.
C9_Witness ==
    /\ pc = "communicate"
    /\ hist.stepFailed
    /\ Len(events) = 9
    /\ locals.tap_coords = <<7, 12>>

(* -------------------------------- C10 ---------------------------------- *)

\* C10: after a coordinate failed to parse, at whichever prompt, automation
\* is off and no sleep or input call is ever issued, and the operation still
\* goes on to the go-ahead and the spawn: it does not return to the menu
\* without having reached the spawn.
C10_ParseFailureDemotes ==
    hist.parseFailedAt > 0 =>
        /\ ~locals.auto_confirm
        /\ events = <<>>
        /\ pc \in {"go_ahead", "get_path", "spawn", "communicate", "wait",
                   "backup_menu", "main_menu"}
        /\ AtMenu => ReachedSpawn

\* C10 witness: the fifth prompt failed after two coordinate pairs had been
\* parsed, and the subprocess was spawned with no input event issued.
C10_Witness ==
    /\ hist.parseFailedAt = 5
    /\ locals.tap_coords = <<7, 12>>
    /\ locals.password_coords = <<3, 9>>
    /\ backup_process.started
    /\ events = <<>>

(* -------------------------------- C11 ---------------------------------- *)

OnlyWhitespace(s) == \A i \in 1..Len(s) : s[i] \in Whitespace

\* C11: a single-app operation whose package name, as typed, is empty or
\* only whitespace never starts a backup: no subprocess is spawned, no
\* sleep or input call of the automation is issued, no outcome is printed,
\* and control is back at the backup menu.
C11_EmptyPackageNeverRuns ==
    (op = "app" /\ hist.packageTyped # <<>> /\ OnlyWhitespace(hist.packageTyped[1]))
    => /\ pc = "backup_menu"
       /\ ~backup_process.started
       /\ hist.spawns = 0
       /\ ~ReachedSpawn
       /\ events = <<>>
       /\ reports = <<>>

\* C11 witness: the operator answered the package prompt with two spaces.
C11_Witness ==
    /\ op = "app"
    /\ hist.packageTyped = << <<" ", " ">> >>
    /\ locals.package_name = <<>>
    /\ pc = "backup_menu"

(* -------------------------------- C12 ---------------------------------- *)

\* C12: no error ends the program: whatever is chosen in whichever menu,
\* and however the operation chosen fails, control comes back to a menu
\* prompt, so the program is never left through an exception.
C12_NeverAborts == pc # "aborted"

(* ----------------- vocabulary of the claims on the probe --------------- *)

IdUsb == <<"a", "b", "c", "1", "2", "3">>
IdWifi == <<"1", "0", ".", "0", ".", "0", ".", "5", ":", "5", "5", "5", "5">>
IdPadded == <<"x", "9">>
IdThreeOctets == <<"1", ".", "2", ".", "3", ":", "5">>

\* The identifiers of ProbeLines and MenuProbes that have the ip:port shape
IpPortIdentifiers == {IdWifi, <<"1", ".", "2", ".", "3", ".", "4", ":", "5">>}

LineOf(identifier, status) == identifier \o <<"\t">> \o status

\* A probe of the observed output has run and got to parse it.
UsbProbed == unit.kind = "probe" /\ unit.usb # <<>>
WifiProbed == unit.kind = "probe" /\ unit.wifi # <<>>
Parsed == unit.exec # <<>> /\ unit.exec[1].stderr = <<>>

\* The (identifier, status) pairs of the well-formed lines the loop of a
\* probe gets to, in listing order.
WellFormed ==
    LET lines == SelectSeq(ListingLines(unit.out), LAMBDA l : ParseLine(l) # <<>>)
    IN  [i \in 1..Len(lines) |-> ParseLine(lines[i])[1]]

\* The identifiers, in listing order, of the well-formed lines of a track
\* whose status field is status.
WithStatus(track, status) ==
    LET sel == SelectSeq(WellFormed,
                         LAMBDA p : Keeps(track, p.serial) /\ p.status = status)
    IN  [i \in 1..Len(sel) |-> sel[i].serial]

\* All results of the probes of a track over the observed output
Results(track) == IF track = "usb" THEN unit.usb ELSE unit.wifi

Tracks == {"usb", "wifi"}

(* -------------------------------- C13 ---------------------------------- *)

\* C13: in a probe that parsed its listing, the list a well-formed line of
\* its track goes to depends on the line's status field alone: the
\* authorized list is exactly the identifiers with status 'device', the
\* unauthorized list those with 'unauthorized', the offline list those with
\* 'offline', and an identifier with any other status is in none of them;
\* a second probe over the same output returns the same as the first.
C13_BucketByStatusAlone ==
    \A track \in Tracks :
        /\ \A i \in 1..Len(Results(track)) :
              LET res == Results(track)[i]
              IN  Parsed =>
                    /\ res.authorized_devices = WithStatus(track, StatusDevice)
                    /\ res.unauthorized_devices = WithStatus(track, StatusUnauthorized)
                    /\ res.offline_devices = WithStatus(track, StatusOffline)
        /\ Len(Results(track)) = 2 => Results(track)[1] = Results(track)[2]

\* C13 witness: the USB probe ran twice over a header, an unauthorized
\* device and a device in recovery: one identifier in the unauthorized
\* list, the other in no list.
C13_Witness ==
    /\ Len(unit.usb) = 2
    /\ unit.outcome = "ok"
    /\ unit.out = Listing(<<Header>>,
                          <<LineOf(IdUsb, StatusUnauthorized),
                            LineOf(IdPadded, <<"r", "e", "c", "o", "v", "e", "r", "y">>)>>)
    /\ unit.usb[2].unauthorized_devices = <<IdUsb>>
    /\ unit.usb[2].authorized_devices = <<>>
    /\ unit.usb[2].offline_devices = <<>>

(* -------------------------------- C14 ---------------------------------- *)

\* The identifiers a probe result has in its three lists
InLists(res) ==
    Range(res.authorized_devices) \cup Range(res.unauthorized_devices)
      \cup Range(res.offline_devices)

KnownStatuses == {StatusDevice, StatusUnauthorized, StatusOffline}

\* C14: over one listing both probes parsed, every identifier is kept by
\* exactly one track: the Wi-Fi probe keeps the identifiers of the ip:port
\* shape and no other, the USB probe keeps all the others and none of that
\* shape; no identifier is in the lists of both probes, and none with a
\* known status is missing from both.
C14_TracksPartitionIdentifiers ==
    (UsbProbed /\ WifiProbed /\ Parsed) =>
        LET U == InLists(unit.usb[1])
            W == InLists(unit.wifi[1])
        IN  /\ U \cap W = {}
            /\ \A i \in 1..Len(WellFormed) :
                  LET p == WellFormed[i]
                  IN  /\ Keeps("wifi", p.serial) <=> p.serial \in IpPortIdentifiers
                      /\ Keeps("usb", p.serial) <=> p.serial \notin IpPortIdentifiers
                      /\ p.status \in KnownStatuses =>
                            IF p.serial \in IpPortIdentifiers
                            THEN p.serial \in W /\ p.serial \notin U
                            ELSE p.serial \in U /\ p.serial \notin W

\* C14 witness: both probes ran over a listing with an identifier of three
\* octets and a port, which is not of the ip:port shape, and a network
\* device that is offline.
C14_Witness ==
    /\ UsbProbed /\ WifiProbed /\ Parsed
    /\ unit.out = Listing(<<Header>>,
                          <<LineOf(IdThreeOctets, StatusDevice),
                            LineOf(IdWifi, StatusOffline)>>)
    /\ unit.usb[1].authorized_devices = <<IdThreeOctets>>
    /\ unit.usb[1].offline_devices = <<>>
    /\ unit.wifi[1].offline_devices = <<IdWifi>>
    /\ unit.wifi[1].authorized_devices = <<>>

(* -------------------------------- C15 ---------------------------------- *)

Names(identifiers) == JoinWith(identifiers, <<",", " ">>)

\* C15: the result of a probe follows the priority authorized, then
\* unauthorized, then offline, then "no authorized devices found": with an
\* authorized device it is a success carrying the authorized identifiers
\* in listing order; otherwise it is a failure whose message names the
\* unauthorized devices, or else the offline ones, or else says that none
\* was found.  The boolean is true exactly when the returned list is not
\* empty, and every failure, an executor error included, returns an empty
\* list.
C15_ResultFollowsPriority ==
    \A track \in Tracks : \A i \in 1..Len(Results(track)) :
        LET res == Results(track)[i]
            a == WithStatus(track, StatusDevice)
            u == WithStatus(track, StatusUnauthorized)
            o == WithStatus(track, StatusOffline)
        IN  /\ res.ok <=> res.authorized # <<>>
            /\ ~res.ok => res.authorized = <<>>
            /\ ~Parsed => ~res.ok /\ res.branch = "error"
            /\ Parsed =>
                  IF a # <<>>
                  THEN res.ok /\ res.authorized = a /\ res.branch = "authorized"
                  ELSE IF u # <<>>
                  THEN /\ ~res.ok /\ res.branch = "unauthorized"
                       /\ Contains(res.message, Names(u))
                  ELSE IF o # <<>>
                  THEN /\ ~res.ok /\ res.branch = "offline"
                       /\ Contains(res.message, Names(o))
                  ELSE ~res.ok /\ res.message = NoDevicesMessage(track)

\* C15 witness: the USB probe met a device listed offline and then
\* unauthorized, and failed naming it as unauthorized.
C15_Witness ==
    /\ UsbProbed /\ Parsed
    /\ unit.out = Listing(<<Header>>,
                          <<LineOf(IdUsb, StatusOffline),
                            LineOf(IdUsb, StatusUnauthorized)>>)
    /\ unit.usb[1].offline_devices = <<IdUsb>>
    /\ unit.usb[1].branch = "unauthorized"
    /\ ~unit.usb[1].ok
    /\ unit.usb[1].authorized = <<>>

(* -------------------------------- C16 ---------------------------------- *)

\* A line of the form <identifier><TAB>device, fields possibly padded
IsDeviceLine(line) ==
    LET parts == SplitOn(line, "\t")
    IN  Len(parts) = 2 /\ Strip(parts[2]) = StatusDevice

IdentifierOf(line) == Strip(SplitOn(line, "\t")[1])

TrackOf(identifier) == IF identifier \in IpPortIdentifiers THEN "wifi" ELSE "usb"

\* The identifiers of the device lines of a track among lines, in order
DeviceIdentifiers(lines, track) ==
    LET sel == SelectSeq(lines, LAMBDA l : IsDeviceLine(l)
                                             /\ TrackOf(IdentifierOf(l)) = track)
    IN  [i \in 1..Len(sel) |-> IdentifierOf(sel[i])]

\* The lines of the output, and those after the first
OutputLines == SplitOn(Strip(unit.out), "\n")
AfterFirst == SubSeq(OutputLines, 2, Len(OutputLines))

TwoDevices == <<LineOf(IdUsb, StatusDevice), LineOf(IdWifi, StatusDevice)>>

ExecFailures == {"nonzero", "timeout", "notfound", "unexpected"}

\* The failure kind a caller can read off the returned error message
KindOfError(message) ==
    IF message = <<>> THEN "none"
    ELSE IF Head(message) = "Error: 'adb' command not found. Please ensure ADB is installed and added to your system's PATH."
    THEN "notfound"
    ELSE IF Head(message) = "Error executing command: " THEN "nonzero"
    ELSE IF Head(message) = "Error: Command timed out after " THEN "timeout"
    ELSE IF Head(message) = "An unexpected error occurred: " THEN "unexpected"
    ELSE "none"

\* The (stdout, stderr) pairs the executor returned in the observed calls
Returned ==
    (IF unit.exec # <<>>
     THEN {[noStdout |-> unit.exec[1].noStdout, stderr |-> unit.exec[1].stderr]}
     ELSE {})
    \cup
    (IF unit.agent # <<>>
     THEN {[noStdout |-> unit.outcome \in ExecFailures, stderr |-> unit.agent[1].stderr]}
     ELSE {})

\* C17: the executor returns every failure as a value: no stdout and a
\* non-empty error message, from which the caller can tell which of the
\* four failures it was (bridge not found, non-zero exit, timeout,
\* unexpected); the message of a non-zero exit carries the captured stderr.
\* A call that exits 0 returns a stdout.
C17_FailuresAreValues ==
    /\ \A r \in Returned :
          IF unit.outcome \in ExecFailures
          THEN r.noStdout /\ r.stderr # <<>> /\ KindOfError(r.stderr) = unit.outcome
          ELSE ~r.noStdout
    /\ (unit.exec # <<>> /\ unit.outcome = "nonzero") =>
          /\ Strip(unit.err) # <<>>
          /\ Contains(unit.exec[1].stderr, Strip(unit.err))

\* C17 witness: "adb devices" exited non-zero and the probe went on with
\* the returned pair.
C17_Witness ==
    /\ unit.outcome = "nonzero"
    /\ unit.usb # <<>>
    /\ unit.exec[1].noStdout
    /\ unit.exec[1].stderr
         = <<"Error executing command: ", "adb", " ", "devices", "\nStderr: ", "f">>
    /\ unit.usb[1].branch = "error"

(* -------------------------------- C18 ---------------------------------- *)

ExitsZero == unit.outcome \in {"ok", "ok_stderr"}

\* C18: for the probe and for every operation of the input agent, a bridge
\* call that exits 0 is a success whatever it wrote to stderr, and only a
\* non-zero exit, a timeout or a missing bridge is a failure: the listing
\* of a call that exits 0 is parsed into the three lists, and an input
\* command that exits 0 returns true.
C18_ExitZeroIsSuccess ==
    /\ \A track \in Tracks : \A i \in 1..Len(Results(track)) :
          LET res == Results(track)[i]
          IN  IF ExitsZero
              THEN /\ res.branch # "error"
                   /\ res.authorized_devices = WithStatus(track, StatusDevice)
                   /\ res.unauthorized_devices = WithStatus(track, StatusUnauthorized)
                   /\ res.offline_devices = WithStatus(track, StatusOffline)
              ELSE res.branch = "error"
    /\ unit.agent # <<>> => (unit.agent[1].ok <=> ExitsZero)

(* -------------------------------- C19 ---------------------------------- *)

\* The place of character i of text in the escaped text
PlaceOf(text, i) == i + Cardinality({j \in 1..(i - 1) : text[j] = " "})

WidthOf(c) == IF c = " " THEN 2 ELSE 1

\* text with "%s" in the place of every space, character by character
WithSpacesEscaped(text) ==
    [k \in 1..(Len(text) + Cardinality({j \in 1..Len(text) : text[j] = " "})) |->
        LET i == CHOOSE i \in 1..Len(text) :
                     PlaceOf(text, i) <= k /\ k < PlaceOf(text, i) + WidthOf(text[i])
        IN  IF text[i] # " " THEN text[i]
            ELSE IF k = PlaceOf(text, i) THEN "%" ELSE "s"]

\* The words after "adb -s <serial> shell input" the observed operation
\* has to send
ExpectedInput ==
    CASE unit.fn = "tap" -> <<Word("tap"), <<"7", "5", "8">>, <<"1", "2", "3", "0">>>>
      [] unit.fn = "text" ->
           <<Word("text"), WithSpacesEscaped(unit.text)>>
      [] OTHER -> <<Word("keycode"), <<"6", "6">>>>

\* C19: an operation of the input agent makes exactly one executor call,
\* "adb -s <serial> shell input ..." for the device it was given, also when
\* that call fails (no retry, no exception), and returns true exactly when
\* the executor returned no error text.
C19_OneCallNoRetry ==
    unit.agent # <<>> =>
        LET res == unit.agent[1]
        IN  /\ Len(res.calls) = 1
            /\ res.calls[1] = <<Word("adb"), <<"-", "s">>, unit.serial, Word("shell"),
                                Word("input")>> \o ExpectedInput
            /\ res.ok <=> res.stderr = <<>>
            /\ res.ok <=> unit.outcome = "ok"

\* C19 witness: input_text of "p w" to the network device ran into the
\* executor's timeout and returned false after its one call.
C19_Witness ==
    /\ unit.agent # <<>>
    /\ unit.fn = "text"
    /\ unit.text = <<"p", " ", "w">>
    /\ unit.serial = <<"1", ".", "2", ".", "3", ".", "4", ":", "5">>
    /\ unit.outcome = "timeout"
    /\ ~unit.agent[1].ok
    /\ Len(unit.agent[1].calls) = 1

(* -------------------------------- C20 ---------------------------------- *)

\* C20 as stated: nothing keeps the authorized set of a probe: the target
\* of every operation comes from a probe made since the operation before
\* it, so no operation starts on a list that an earlier operation has
\* already been started on.
C20_TargetFromFreshProbe == probe_age <= 1

IsSortedSet(seq) == \A i \in 1..(Len(seq) - 1) : StrLess(seq[i], seq[i + 1])

\* C20, amended: MainCli keeps the sorted, duplicate-free union of the
\* authorized lists of the last _update_device_lists in
\* all_authorized_devices; the device of a menu is an entry of that stored
\* list, and every operation started from the backup menu, the first as
\* well as the later ones of the same visit, runs on that device.
C20_TargetFromStoredList ==
    /\ IsSortedSet(all_authorized_devices)
    /\ selected_device_serial # None =>
          selected_device_serial \in Range(all_authorized_devices)
    /\ op # "none" =>
          /\ locals.serial = selected_device_serial
          /\ locals.serial \in Range(all_authorized_devices)

\* C20 witness: the second backup of one visit to the backup menu has its
\* subprocess running on the device chosen from the list stored before the
\* first.
C20_Witness ==
    /\ probe_age = 2
    /\ backup_process.started
    /\ Len(all_authorized_devices) = 2
    /\ locals.serial = all_authorized_devices[2]

(* -------------------------------- C21 ---------------------------------- *)

\* The lines of the listing as the executor returned it to the probe
ReturnedLines == SplitOn(unit.exec[1].stdout, "\n")

TabsIn(line) == Len(SelectSeq(line, LAMBDA c : c = "\t"))

\* A line the loop has to pass over: blank, or not exactly two fields
IsIgnored(line) == OnlyWhitespace(line) \/ TabsIn(line) # 1

\* The lines after the first that are not passed over, in listing order
KeptLines ==
    SelectSeq(SubSeq(ReturnedLines, 2, Len(ReturnedLines)), LAMBDA l : ~IsIgnored(l))

StatusOf(line) == Strip(SplitOn(line, "\t")[2])

\* The identifiers of the kept lines of a track with a status, in order
KeptWith(track, status) ==
    LET sel == SelectSeq(KeptLines, LAMBDA l : TrackOf(IdentifierOf(l)) = track
                                                /\ StatusOf(l) = status)
    IN  [i \in 1..Len(sel) |-> IdentifierOf(sel[i])]

\* C21: a probe that parses its listing passes over the first line whatever
\* it holds and, after it, over every blank line and every line that does
\* not split on tab into exactly two fields: the three lists hold the
\* identifiers of the other lines only, each under its own status, and the
\* whole result is the one the probe returns for the header followed by
\* those other lines alone.
C21_IgnoredLinesContributeNothing ==
    \A track \in Tracks : \A i \in 1..Len(Results(track)) :
        LET res == Results(track)[i]
            alone == CheckConnection(track,
                         RunDevices("ok", Listing(<<Header>>, KeptLines), <<>>))
        IN  Parsed =>
              /\ res.authorized_devices = KeptWith(track, StatusDevice)
              /\ res.unauthorized_devices = KeptWith(track, StatusUnauthorized)
              /\ res.offline_devices = KeptWith(track, StatusOffline)
              /\ res = alone

\* C21 witness: the USB probe parsed a header, a line of three fields and
\* the line of an authorized device: the device alone is in its lists.
C21_Witness ==
    /\ UsbProbed /\ Parsed
    /\ unit.out = Listing(<<Header>>,
                          <<<<"x", "9", "\t", "o", "f", "f", "l", "i", "n", "e", "\t", "u", "s", "b">>,
                            LineOf(IdUsb, StatusDevice)>>)
    /\ unit.usb[1].offline_devices = <<>>
    /\ unit.usb[1].authorized_devices = <<IdUsb>>
    /\ unit.usb[1].branch = "authorized"

(* -------------------------------- C22 ---------------------------------- *)

\* C22: an executor call that exits 0 returns both streams trimmed of
\* leading and trailing whitespace when raw_output is off, and both streams
\* exactly as the command wrote them, stdout and stderr alike, when
\* raw_output is on.
C22_BothStreamsRawOrTrimmed ==
    (unit.exec # <<>> /\ ExitsZero) =>
        LET r == unit.exec[1]
        IN  IF unit.raw
            THEN r.stdout = unit.out /\ r.stderr = unit.err
            ELSE IsTrimOf(r.stdout, unit.out) /\ IsTrimOf(r.stderr, unit.err)

(* -------------------------------- C23 ---------------------------------- *)

\* The text the observed input_text put on its command line
Transmitted == unit.agent[1].calls[1][Len(unit.agent[1].calls[1])]

InputsIssued == SelectSeq(events, LAMBDA e : e.kind = "input")

RECURSIVE SleptIn(_)
SleptIn(evs) ==
    IF evs = <<>> THEN 0
    ELSE (IF Head(evs).kind = "sleep" THEN Head(evs).secs ELSE 0) + SleptIn(Tail(evs))

\* All five settle delays and every input call of the longest sequence
\* running to the executor's timeout
WorstCaseAutomation ==
    SettleInitial + SettleAfterTap + SettleAfterPasswordField + SettleAfterText
      + SettleAfterConfirm + 4 * TIMEOUT_SECONDS

\* C24: the automation sequence takes far less than the backup timeout of
\* either scope.  At most four input calls are made, each over within the
\* executor's 30 seconds, and the settle delays add up to at most
\* 5+2+1+1+2, so the wait on the subprocess begins within the worst case,
\* which is below the 600 of the single-app scope and the 3600 of the
\* whole-device scope; an operation whose subprocess never ends is then
\* over, with the timeout warning, one backup timeout after that.
C24_AutomationFarBelowTimeout ==
    /\ WorstCaseAutomation < AppBackupTimeout
    /\ AppBackupTimeout <= FullBackupTimeout
    /\ backup_process.started =>
          /\ Len(InputsIssued) <= 4
          /\ SleptIn(events) <= SettleInitial + SettleAfterTap + SettleAfterPasswordField
                                  + SettleAfterText + SettleAfterConfirm
          /\ ~hist.waited =>
                clock - hist.spawnTime <= SleptIn(events) + Len(InputsIssued) * TIMEOUT_SECONDS
          /\ hist.waited =>
                /\ hist.waitStart - hist.spawnTime
                     <= SleptIn(events) + Len(InputsIssued) * TIMEOUT_SECONDS
                /\ hist.waitStart - hist.spawnTime < BackupTimeout(op)
                /\ clock <= hist.waitStart + BackupTimeout(op)
          /\ clock - hist.spawnTime <= WorstCaseAutomation + BackupTimeout(op)
    /\ Outcome = "WARNING_TIMED_OUT" =>
          /\ clock = hist.waitStart + BackupTimeout(op)
          /\ backup_process.state # "running"

\* C24 witness: a single-app backup whose four input calls all ran into the
\* executor's timeout and whose subprocess never ended: the wait began
\* after the worst case and the operation ended with the timeout warning.
C24_Witness ==
    /\ op = "app"
    /\ locals.auto_confirm
    /\ Len(InputsIssued) = 4
    /\ hist.waitStart - hist.spawnTime = WorstCaseAutomation
    /\ Outcome = "WARNING_TIMED_OUT"
    /\ clock = hist.spawnTime + WorstCaseAutomation + AppBackupTimeout
    /\ pc = "backup_menu"

(* -------------------------------- C25 ---------------------------------- *)

\* The subprocess ended by itself while steps of the automation were still
\* to come.
EndedDuringAutomation ==
    /\ locals.auto_confirm
    /\ hist.exitedAfter # <<>>
    /\ hist.exitedAfter[1] < Len(PlannedEvents)

\* C25: in an operation with automation whose subprocess was started,
\* nothing is reported while the automation sequence runs, whatever the
\* subprocess does meanwhile: when it ends during the sequence, with status
\* 0 or another, the steps still to come are issued all the same, and the
\* report, SUCCESS or ERROR by that status, is printed only after the last
\* of them, once the wait has been made.
C25_OutcomeOnlyAfterAutomation ==
    /\ Automating => reports = <<>>
    /\ (backup_process.started /\ locals.auto_confirm /\ reports # <<>>) =>
          /\ events = PlannedEvents
          /\ hist.waited
          /\ Len(reports) = 1
    /\ (EndedDuringAutomation /\ ~Automating /\ pc # "spawn") =>
          /\ events = PlannedEvents
          /\ Len(events) > hist.exitedAfter[1]
    /\ (EndedDuringAutomation /\ reports # <<>> /\ ~hist.exception) =>
          Outcome = IF backup_process.returncode = <<0>> THEN "SUCCESS" ELSE "ERROR"

\* C25 witness: the subprocess ended with status 1 right after the initial
\* settle delay; the four input calls were made all the same and ERROR was
\* reported after them.
C25_Witness ==
    /\ locals.auto_confirm
    /\ hist.exitedAfter = <<1>>
    /\ backup_process.returncode = <<1>>
    /\ Len(InputsIssued) = 4
    /\ events = PlannedEvents
    /\ Outcome = "ERROR"
    /\ pc = "backup_menu"

(* -------------------------------- C26 ---------------------------------- *)

\* The configuration prompts of the operation have all been answered.
Configured ==
    pc \in {"go_ahead", "spawn", "communicate", "wait"} \/ Automating
      \/ (pc = "backup_menu" /\ ReachedSpawn)

IsKeyPress(e) ==
    /\ e.kind = "input"
    /\ \E i \in 1..Len(e.argv) :
          e.argv[i] \in {Word("keycode"), Word("keyevent"), IntToStr(KeycodeEnter)}

\* C26: an operation that goes on with automation has its three coordinate
\* pairs set, the confirm pair among them, whether they are the provided
\* ones or were typed in (a pair that fails to parse turns automation
\* off); so the confirm step is always a tap on the confirm pair, and no
\* key press, of Enter (66) or of any key, is ever sent in either
\* operation.
C26_EnterKeyNeverIssued ==
    /\ (Configured /\ locals.auto_confirm) =>
          /\ locals.tap_coords # None
          /\ locals.password_coords # None
          /\ locals.confirm_pass_coords # None
    /\ pc = "auto_confirm" => locals.confirm_pass_coords # None
    /\ \A i \in 1..Len(events) : ~IsKeyPress(events[i])
    /\ (locals.auto_confirm /\ hist.waited /\ locals.password_to_use # <<>>) =>
          InputsIssued[Len(InputsIssued)] = TapOf(locals.confirm_pass_coords)

\* C26 witness: a single-app backup with typed coordinates and a typed
\* password has made its confirm step, a tap at the typed confirm pair.
C26_Witness ==
    /\ op = "app"
    /\ locals.auto_confirm
    /\ hist.waited
    /\ locals.confirm_pass_coords = <<40, 6>>
    /\ locals.password_to_use = <<"p", " ", "w">>
    /\ Len(InputsIssued) = 4
    /\ InputsIssued[4] = TapOf(<<40, 6>>)
====
